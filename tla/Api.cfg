SPECIFICATION Spec
CONSTANTS
    Orgs = {o1, o2}
    Home = o1
    StaffLife = 1
    StudentLife = 2
INVARIANTS
    RlsSeesItsTenant
    AuthorityBounded
    MoneyKeptFrom
    PartialWritesExplained
    StaleWritesExplained
