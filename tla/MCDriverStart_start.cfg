CONSTANTS
  NameOrder <- MCNameOrder
  Trimmed <- MCTrimmed
  Unprintable <- MCUnprintable
  Rounded <- MCRounded
  Tiny <- MCTiny
  Blank = Blank
  Junk = Junk
  NoContent = NoContent
  Disks <- MCDisks
  ConfigText = cText
  ModuleText = mText
  ParamsText = pText
  NullModule = NullModule
  Library <- MCLibrary
  NewValues <- MCNewValues
  ReadOnly <- MCReadOnly
  NoImp = NoImp
  Nothing = Nothing
  MaxStarts = 2
  MaxChanges = 2
  boss = boss  d1 = d1  d2 = d2  va = va  vb = vb  m1 = m1  m2 = m2  c1 = c1  c2 = c2
  plain = plain  padded = padded  marked = marked  p1 = p1  p2 = p2
  so = so  noSo = noSo  noEntry = noEntry  badParams = badParams
  cText = cText  mText = mText  pText = pText
SPECIFICATION Spec
INVARIANTS
  ManagerTruthful
  RelationsEstablished
PROPERTIES
  Restores
  StartsUp
CHECK_DEADLOCK FALSE
