SPECIFICATION Spec
CONSTANTS
    u1 = u1  b1 = b1  q1 = q1  q2 = q2
    s1 = s1  s2 = s2  s3 = s3  t1 = t1  t2 = t2
    NoUser = NoUser  NoSession = NoSession  NoToken = NoToken  NoBrowser = NoBrowser
    User = {u1}
    Session = {s1, s2, s3}
    Token = {t1, t2}
    Browser = {b1}
    Slot = {q1, q2}
    SignInAt = {b1}
    RecoverAt = {b1}
    MaxPasswords = 3
    Mixes <- EachMix
    Projector = TRUE
SYMMETRY RecordSymmetry
CONSTRAINT Fits
CHECK_DEADLOCK FALSE
INVARIANTS TypeOK ResetCutsOff TokenResetsOnce SignedInHasProfile
PROPERTIES LogoutEndsSession SignOutSparesOnlyOwn
