SPECIFICATION Spec
CONSTANTS
    ann = ann  bob = bob  a = a  b = b  c = c  h1 = h1  h2 = h2
    NoEmail = NoEmail  NoUser = NoUser
    Users <- MCUsers
    Admins <- MCAdmins
    Emails <- MCEmails
    FirstEmail <- MCFirstEmail
    Handlers <- MCHandlers
    EmailOTPUsers <- MCUsers
    MaxAttempts = 2
    CodesPerUser = 2
    MaxRecovery = 2
    MaxRows = 3
    MaxEdits = 1
SYMMETRY MCSymmetry
CHECK_DEADLOCK FALSE
INVARIANTS TypeOK UsedOnce WrongGuessesBounded OnePendingCodeWins NoSessionOutlivesReset CodesReusedOnlyByLateWrites
