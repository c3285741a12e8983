SPECIFICATION FairSpec
CONSTANTS
    alice = alice
    bob = bob
    carol = carol
    NoKey = NoKey
    Peers <- MCTwo
    Friend <- MCFriend
    Version <- MCVersion
    Waiting <- MCNobody
    Target <- MCFriend
    Dials <- MCDialAlice
    Listeners <- MCAlice
    Leavers <- MCNobody
    Quitters <- MCNobody
    Hasty <- MCTwo
    Faulty = FALSE
    MaxLinks = 3
    MaxStarts = 1
PROPERTY ListenersAnswer
CHECK_DEADLOCK FALSE
