CONSTANTS
    alice = alice
    bob = bob
    eve = eve
    pa = pa
    pb = pb
    ra = ra
    rx = rx
    rb = rb
    RouteList <- MCRouteList
    Lower <- MCLower
    Strangers = {eve}
    Passwords = {pa, pb}
    PasswordOf <- MCPasswordOf
    Senders = {from}
    Addresses <- MCAddresses
    MailboxOf <- MCMailboxOf
    NoRoute = NoRoute
    NoUser = NoUser
    NoAddress = NoAddress
    NoSession = NoSession
    NoExchange = NoExchange
    MaxRecipients = 2
    MaxMessages = 1
CHECK_DEADLOCK FALSE
SPECIFICATION Spec
INVARIANTS
    TypeOK
    DeliveredIsAuthorised
    CredentialsUnderTLS
    UpgradeForgets
    EnvelopesAgree
    LoginReadsThePair
    
    MailboxesStayTogether
