SPECIFICATION PagesSpec
CONSTANTS
  x1 = x1
  x2 = x2
  Garages = {x1, x2}
  Prices = {1, 2}
  Funds = {1, 2}
  MaxGarages = 2
  MaxPhotos = 1
  MaxSends = 4
  MaxTickets = 2
  MaxLost = 1
  Filters = {x1, x2}
  NoFilters = NoFilters
  MaxJobs = 2
  MaxMounts = 2
  Reviewers = {x1, x2}
  Captured = {"a", "b"}
  Historical = {"b"}
  MaxDecisions = 2
  Clerks = {x1, x2}
  Cars = {1}
  MaxChanges = 3
  MaxForms = 2
  Offices = {x1, x2}
  MaxPapers = 2
  MaxSaves = 2
CONSTRAINT JobsOrVisits
SYMMETRY Interchangeable
INVARIANTS OneTicketPerForm ApprovedAsShown OffersAreTaken ContextIsTrue
  DecisionsStand NothingOverwrittenUnseen PapersAreInOrder
CHECK_DEADLOCK FALSE
