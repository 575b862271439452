SPECIFICATION Spec
CONSTANTS
    newcomer = newcomer
    rival = rival
    veteran = veteran
    m1 = m1
    m2 = m2
    m3 = m3
    list = list
    s1 = s1
    s2 = s2
    Clients = {newcomer, rival, veteran}
    EmailOf <- MCEmailOf
    PasswordOf <- MCPasswordOf
    Passwords <- MCPasswords
    Veterans <- MCVeterans
    Sessions = {s1, s2}
    Requests = {m1, m2, m3}
    ClientOf <- MCClientOf
    SessionOf <- MCSessionOf
    Blank = {m1}
    Listings = {list}
    Legacy = Legacy
    None = None
CHECK_DEADLOCK FALSE
INVARIANTS
    TypeOK
    TokensAreEarned
    SessionsAreSeparate
    ConversationsHaveTitles
PROPERTIES TitleKept ImplementsDirectory
