\* Two builds to p, a sign from p to q, a check of q; archives of two writes.
SPECIFICATION Spec
CONSTANTS
    b1 = b1
    b2 = b2
    s1 = s1
    c1 = c1
    p = p
    q = q
    Paths = {p, q}
    Builders = {b1, b2}
    Signers = {s1}
    Checkers = {c1}
    Output <- MCOutput
    Input <- MCInput
    Size = 2
    Nobody = Nobody
    Foreign = Foreign
    Dangling = Dangling
    NoSource = NoSource
    MaxEdits = 2
INVARIANTS
    SuccessIsWhole
    AcceptedIsWhole
    ContentFailureLeavesNothing
    NothingUnvalidated
PROPERTIES
    JobsEnd
    KeepsPromise
