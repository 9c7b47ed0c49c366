\* Two clients of up to two attempts in three ticks; five places leave one for
\* an attempt too many.
CONSTANTS
    Client = {k1, k2}
    Attempt = {t1, t2, t3, t4, t5}
    MaxLoginAttempts = 2
    LoginWindow = 3
SPECIFICATION Spec
INVARIANTS
    AtMostMaxPerWindow
    LockoutEnds
