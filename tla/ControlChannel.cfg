\* Three daemons started in any order, and two runs of mcp-lock, given
\* a line to sign and a plain one.
CONSTANTS
  d1 = d1
  d2 = d2
  d3 = d3
  Daemon = {d1, d2, d3}
  a1 = a1
  TheAddress = a1
  Address = {a1}
  Listen <- OneAddress
  NoDaemon = NoDaemon
  r1 = r1
  r2 = r2
  Run = {r1, r2}
  Lines <- MCLines
  Numeral <- Numbers
SPECIFICATION FairSpec
INVARIANTS TypeOK ReportIsTrue IssuerDecides ControlKept
PROPERTY CliReturns
CHECK_DEADLOCK FALSE
