\* The guarantee the printer states: what it writes parses back to the same program.
SPECIFICATION Spec
CONSTANTS
    Spaced <- MCSpaced
    FormatOf <- MCFormatOf
    Normal <- MCNormal
    PathFacts <- MCPathFacts
    LiteralRules <- MCLiteralRules
    t1 = t1
    t2 = t2
    repair = repair
    gate = gate
    other = other
    Absent = Absent
    Self = Self
    Admin = Admin
    Tenants = {t1, t2}
    Server <- MCServer
    HeadersOf <- MCHeadersOf
    Changers <- MCChangers
    Requests = {repair, gate, other}
    TenantOf <- MCTenantOf
    KindOf <- MCKindOf
    Packs <- MCPacks
    Broken = Broken
    NoPack = NoPack
    Global <- MCGlobal
    Texts <- MCTexts
    Proposals <- MCProposals
    SlmEnabled = TRUE
    MaxPuts = 1
    Verdict <- MCVerdict
    Repair <- MCRepair
INVARIANT PrinterGuarantee
CHECK_DEADLOCK FALSE
