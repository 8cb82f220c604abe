SPECIFICATION Spec
CONSTANTS
  NTrips = 2
  NLinks = 2
  NComments = 2
  Users = {u1, u2}
  NoOne = NoOne
  Within <- MCWithin
  Most <- MCMost
  Dates <- MCDates
  Windows <- MCWindows
  Horizon = 3
  MaxSteps = 3
  MaxTorn = 1
  MaxViews = 2
  a1 = a1
  a2 = a2
  g1 = g1
  h1 = h1
  h2 = h2
  NoGroup = NoGroup
  RunIds = {1, 2, 3, 4, 5}
  Seats <- MCSeats
  PriceTables <- MCPrices
  Calls <- MCCalls
  Legacy <- MCLegacy
  BatchSize = 2
  DrillInLimit = 1
  Months <- MCMonths
  Spans <- MCSpans
  LastHalfDay = 14
  MaxRuns = 1
  MaxCalls = 2
  p1 = p1
  p2 = p2
  Nowhere = Nowhere
  Today <- MCToday
  Itineraries <- MCItineraries
  ToolAsks <- MCToolAsks
  TypicalYears = 2
  ForecastDays = 16
  HorizonDays = 16
  MaxBucketSpan = 364
  MaxEntries = 5
  Hourlies <- MCHourlies
  MaxAsks = 2
  l1 = l1
  l2 = l2
  c1 = c1
  c2 = c2
  Trips = {1, 2}
  TripDates <- MCTripDates
  LinkTrips <- MCLinkTrips
  FirstPlans <- MCFirstPlans
  CreatedBy <- MCCreatedBy
  Callers <- MCCallers
  Filters <- MCFilters
  Selections <- MCSelections
  PageSize = 1
  MaxRatings = 3
  MaxPlanEdits = 1
  MaxChanges = 2
SYMMETRY UsersAlike
INVARIANTS FiguresAgree PageAddsUp BackfillIsThorough OutlookIsRight ListIsComplete
PROPERTIES CopiesFitIn EditsAreNoticed
\* The steps, runs, lookups, ratings and changes are used up.
CHECK_DEADLOCK FALSE
