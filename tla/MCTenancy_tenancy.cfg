SPECIFICATION Spec

CONSTANTS
  None = None
  Gone = Gone
  acme = acme
  zest = zest
  ann = ann
  bob = bob
  cid = cid
  flat = flat
  loft = loft
  red = red
  blue = blue
  mail = mail
  post = post
  note = note
  Tenants = {acme, zest}
  Users = {ann, bob, cid}
  Properties = {flat, loft}
  NoticeIds = {n1, n2}
  DetailIds = {d1, d2}
  Slugs = {red, blue}
  Emails = {mail, post, note}
  Amenities = {"wifi"}
  Requests = {r1, r2}
  MaxTime = 1
  Scenes <- MCScenes

SYMMETRY RequestSymmetry
INVARIANT TypeOK
INVARIANT RowsHaveOwners
INVARIANT ChecksKept
INVARIANT NoticeScope
PROPERTY LostNoticeIsRace
PROPERTY CreatedActiveIsRace
PROPERTY SavedHiddenIsRace
PROPERTY DuplicateAmenityIsRace
PROPERTY ReadTimeKept
PROPERTY ImplementsTenantLife
CHECK_DEADLOCK FALSE
