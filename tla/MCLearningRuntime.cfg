SPECIFICATION Spec
CONSTANTS
    p1 = p1
    p2 = p2
    new = new
    fix = fix
    alt = alt
    None = None
    Proc = {p1, p2}
    Operator = {p1}
    Reviewer = {p2}
    Candidate = {new, fix, alt}
    Creates = {new}
    Revision = {fix}
    Target <- MCTarget
    Base <- MCBase
    Content <- MCContent
    Knowledge <- MCKnowledge
    Sensitive = {new}
    ActiveKey <- MCActiveKey
    Initial <- MCInitial
    Offered <- MCOffered
    Granted <- MCGranted
    MaxLedger = 6
    MaxJournal = 4
INVARIANTS
    TypeOK
    RecordsStepwise
    SuccessIsSigned
    SuccessIsInformed
    UnsignedBounded
    ActiveReviewed
    ReceiptsTrue
    RevisionsOverBase
CHECK_DEADLOCK FALSE
