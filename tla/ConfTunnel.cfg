SPECIFICATION Spec
CONSTANTS
  n1 = n1  n2 = n2  a1 = a1  a2 = a2  host = host
  Net = {n1, n2}
  Everything = Everything
  Addr = {a1, a2}
  Host = {host}
  Ident = {ident}
  Own = Own
  Group = Group
  User = {user}
  None = None
  MaxCidrs = 2
  DHGroups <- MCDHGroups
  Ciphers = {"aes128", "aes256"}
  Integrities = {"sha1", "sha256"}
  Picks <- MCPicks
  Endpoints <- MCEndpoints
SYMMETRY MCSymmetry
INVARIANTS TypeOK AllNetworksRouted PskBound UserSecretFound RoundTrip
