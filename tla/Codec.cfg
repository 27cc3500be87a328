SPECIFICATION Spec
CONSTANTS
    mailer = mailer
    outboxMailer = outboxMailer
    report = report
    secret = secret
    x = x
    Codecs = {k1, k2}
    Structs = {mailer, outboxMailer, report, secret}
    Shape <- Shapes
    TypeName <- TypeNames
    GivenName <- GivenNames
    Contents = {zero, x}
    Zero = zero
    Names = {"", "Report"}
    MaxRecords = 1
    Nothing = Nothing
SYMMETRY Symmetry
INVARIANTS
    TypeOK
    OwnRecordsComeBack
    ContentSurvives
