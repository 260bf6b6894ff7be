SPECIFICATION Spec
CONSTANTS
    Threads = {t1, t2}
    e1 = e1
    p1 = p1
    p2 = p2
    Pairs <- SomePairs
    RESEND_COOLDOWN = 1
    OTP_EXPIRY = 2
    RATE_LIMIT_WINDOW = 1
    MAX_OTP_PER_WINDOW = 1
    MAX_VERIFY_ATTEMPTS = 2
    LEGACY_VERIFY_ATTEMPTS = 1
    MAX_OTPS = 3
    MAX_CLOCK = 3
SYMMETRY Symmetry
INVARIANTS
    TypeOK
    NewestOtpUsable
    OverlapBounded
PROPERTIES
    VerificationLasts
