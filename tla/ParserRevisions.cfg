SPECIFICATION Spec
CONSTANTS
    Requests = {r1, r2, r3}
    Texts = {t1, t2}
    NoText = NoText
    Nobody = Nobody
INVARIANTS
    TypeOK
    RevisionsAreKept
    AnswerStands
    BehindIfRaced
PROPERTY ImplementsLog
CHECK_DEADLOCK FALSE
