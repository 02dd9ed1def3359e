SPECIFICATION MetricsSpec
CONSTANTS
  single = single
  first = first
  second = second
  Appointments <- MCAppointments
  Days = {1, 2}
  Month = {2}
  Week = {1, 2}
  Staff = {1, 2}
  Customers = {1}
  Services = {1, 2}
  Of <- MCOf
  TopShown = 2
  FavouritesShown = 1
  MaxChanges = 4
  MaxAborts = 1
SYMMETRY MCSymmetry
INVARIANT RowsAreRight
INVARIANT PanelsAgree
CHECK_DEADLOCK FALSE
