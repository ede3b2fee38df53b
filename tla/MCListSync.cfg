CONSTANTS
  Urls = {u1, u2}
  NoUrl = none
  Threads = {t1, t2, t3}
  Cursors = {c1, c2}
  NoCursor = null
  MaxRows = 3
  MaxLimit = 2
  MaxSaves = 2
SPECIFICATION FairSpec
 
PROPERTIES LoadMoreProgresses RefreshKeepsRows 
