CONSTANTS
  sa = sa
  sb = sb
  sc = sc
  sd = sd
  se = se
  cx = cx
  cy = cy
  zz = zz
  Symbols = {sa, sb, sc, sd, se, cx, cy}
  Clean = {sa, sb, sd, se, cx, cy}
  Liquid = {sa, sb, cx}
  CheapScore <- MCCheap
  Score <- MCScore
  NameRank <- MCName
  Required <- MCRequired
  ShortlistSize <- MCShortlist
  Batch <- MCBatch
  PrefilterMultiplier <- MCPrefilter
  DossierMultiplier <- MCDossiers
  DossierFloor <- MCFloor
  Threads = {t1, t2}
  Job = job
  Requests <- MCRequests
  Etfs <- MCEtfs
  Offers <- MCOffers
  Picks <- MCPicks
  FirstFiles <- MCFirst
  NoFile = NoFile
  MaxWriters = 3
SPECIFICATION Spec
INVARIANTS TypeOK StandingEdits SelectionSound SelectionFills IncumbentsFirst
PROPERTY NeverWiped
CHECK_DEADLOCK FALSE
