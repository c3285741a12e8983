SPECIFICATION FairSpec
CONSTANTS
    alice = alice
    bob = bob
    carol = carol
    NoKey = NoKey
    Peers <- MCTwo
    Friend <- MCFriend
    Version <- MCVersion
    Waiting <- MCTwo
    Target <- MCFriend
    Dials <- MCDialOthers
    Listeners <- MCNobody
    Leavers <- MCNobody
    Quitters <- MCNobody
    Hasty <- MCTwo
    Faulty = FALSE
    MaxLinks = 2
    MaxStarts = 1
PROPERTIES BothOrNeither AttemptsEnd ListenersAnswer
CHECK_DEADLOCK FALSE
