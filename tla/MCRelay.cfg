\* Two Hosts, two clients, one thread less than there are connections.
SPECIFICATION Spec
CONSTANTS
  h1 = h1
  h2 = h2
  c1 = c1
  c2 = c2
  r1 = r1
  r2 = r2
  Hosts = {h1, h2}
  Clients = {c1, c2}
  Routes = {r1, r2}
  Hellos <- MCHellos
  MaxWaiting = 2
  MaxOuter = 3
  None = None
INVARIANTS
  RoutesAreDisjoint
  OneClientPerHost
  EndedIsClean
PROPERTIES
  StopEnds
  HandedIsServed
