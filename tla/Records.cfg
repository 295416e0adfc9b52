SPECIFICATION MCSpec
CONSTANTS
  Emails = {e1, e2}
  e1 = e1
  e2 = e2
  Names = {n1, n2}
  ProfileNames = {n1, n2}
  n1 = n1
  n2 = n2
  Calls = {c1, c2, c3}
  c1 = c1
  c2 = c2
  c3 = c3
  MaxFaults = 1
  Users = {u1, u2}
  Authors = {u1, u2}
  Reviewers = {u1, u2}
  Members = {u1, u2}
  u1 = u1
  u2 = u2
  Nobody = Nobody
  Requests = {d1, d2}
  Edits = {d1, d2}
  Editors = {d1, d2}
  Clients = {d1, d2}
  Managers = {d1, d2}
  Shoppers = {r1}
  Sellers = {d1, d2}
  Taps = {d1, d2}
  Runners = {d1, d2}
  Readers = {r1}
  r1 = r1
  d1 = d1
  d2 = d2
  Objects = {1, 2, 3, 4}
  MaxEdits = 4
  ProfileFaults = 2
  Owners = {u1, u2}
  Pictures = {1, 2}
  MediaFaults = 1
  Stars = {1, 5}
  MaxReviews = 4
  RatingFaults = 1
  Categories = {1, 2}
  Slugs = {s1, s2}
  s1 = s1
  s2 = s2
  MaxChanges = 3
  CatalogFaults = 1
  Items = {u1, u2}
  Limits = {1, 2}
  MaxOffers = 3
  Listings = {l1}
  l1 = l1
  MaxFavorites = 4
  MaxOverlaps = 2
SYMMETRY Symmetry
INVARIANTS
  Types
  RowsOrdered
  IncompleteExplained
  AccessExplained
  AudienceExplained
  MediaExplained
  MarketExplained
  SchemaSound
