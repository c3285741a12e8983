SPECIFICATION FairSpec
CONSTANTS
    alice = alice
    bob = bob
    carol = carol
    NoKey = NoKey
    Peers <- MCThree
    Friend <- MCFriend
    Version <- MCOldCarol
    Waiting <- MCAlice
    Target <- MCFriend
    Dials <- MCNoDials
    Listeners <- MCNobody
    Leavers <- MCNobody
    Quitters <- MCNobody
    Hasty <- MCNobody
    Faulty = FALSE
    MaxLinks = 2
    MaxStarts = 1
PROPERTIES FriendsMeet
CHECK_DEADLOCK FALSE
