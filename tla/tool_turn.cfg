\* Four calls, two at a time: two update the plan, two are safe beside others;
\* two threads answer; tools may ignore everything but their flag.  Three tables of
\* rules, one hook per pipeline, one grant.
SPECIFICATION MCSpec
CONSTANTS
    t1 = t1
    t2 = t2
    N = 4
    Limit = 2
    ParallelSafe = {3, 4}
    Planner = {1, 2}
    Asked = {1, 2, 3}
    OnceOnly = {2}
    Key <- MCKey
    Thread <- MCThread
    HasReceiver = TRUE
    HasTimeout = TRUE
    RuleSets <- MCRuleSets
    Arguments <- MCArguments
    Hooks = 1
    Images <- MCImages
    MaxGrants = 1
INVARIANTS
    ApprovalSound
    ResultsSound
    PolicySound
PROPERTIES
    KeepsToolContract
    TurnEnds
