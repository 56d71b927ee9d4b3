SPECIFICATION FairSpec
CONSTANTS
    r1 = r1
    Main = Main
    Review = Review
    Modes = {"plain", "candidate"}
    MaxHandoffs = 3
    NoSpeech = {2}
    Reviewers = {r1}
    MaxReviews = 2
    MaxRestarts = 1
INVARIANT NothingLost
INVARIANT TurnedOnce
PROPERTY LatestHeard
PROPERTY ReviewsEnd
CHECK_DEADLOCK FALSE
