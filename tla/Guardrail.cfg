\* The guardrail over the policy engine, the parser and the printer: three
\* requests of two tenants, two packs, the model enabled.
SPECIFICATION Spec
CONSTANTS
    Spaced <- MCSpaced
    FormatOf <- MCFormatOf
    Normal <- MCNormal
    PathFacts <- MCPathFacts
    LiteralRules <- MCLiteralRules
    t1 = t1
    t2 = t2
    repair = repair
    gate = gate
    other = other
    Absent = Absent
    Self = Self
    Admin = Admin
    Tenants = {t1, t2}
    Server <- MCServer
    HeadersOf <- MCHeadersOf
    Changers <- MCChangers
    Requests = {repair, gate, other}
    TenantOf <- MCTenantOf
    KindOf <- MCKindOf
    Packs <- MCPacks
    Broken = Broken
    NoPack = NoPack
    Global <- MCGlobal
    Texts <- MCTexts
    Proposals <- MCProposals
    SlmEnabled = TRUE
    MaxPuts = 1
    Verdict <- MCVerdict
    Repair <- MCRepair
INVARIANTS
    AdmittedByItsPack
    VerifiedIsAllowed
    RoundTripExact
    FixableIsFixed
    RepairSettles
PROPERTY
    Answered
CHECK_DEADLOCK FALSE
