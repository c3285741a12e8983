SPECIFICATION Spec
CONSTANTS
    alice = alice
    bob = bob
    carol = carol
    NoKey = NoKey
    Peers <- MCThree
    Friend <- MCFriend
    Version <- MCVersion
    Waiting <- MCAlice
    Target <- MCFriend
    Dials <- MCNoDials
    Listeners <- MCAlice
    Leavers <- MCAlice
    Quitters <- MCBob
    Hasty <- MCThree
    Faulty = TRUE
    MaxLinks = 2
    MaxStarts = 2
INVARIANTS TypeOK ConnectedToFriend SocketMatchesState
PROPERTY SessionsAreNotTakenOver
CHECK_DEADLOCK FALSE
