SPECIFICATION MCSpec
CONSTANTS
    Accounts = {d, a1, a2}
    Deployer = d
    Roles = {admin, minter, pauser}
    Admin = admin
    Minter = minter
    Pauser = pauser
    Zero = zero
    MaxTokens = 3
SYMMETRY Symmetry
INVARIANTS
    TypeOK
    EnumerationsAreExact
    ApprovalsAreLive
PROPERTIES
    RightsComeFromAdmins
    ImplementsTokenLedger
