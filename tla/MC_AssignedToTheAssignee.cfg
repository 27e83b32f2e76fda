CONSTANTS
  Superadmins = {"s"}
  Staff = {"a"}
  Support = {"b"}
  Nobody = "nobody"
  Requests = {"p1"}
  MaxRequests = 3
  Operations = {"update", "reply"}
  NewStatuses = {}
SPECIFICATION TicketsSpec
INVARIANT AssignedToTheAssignee
CHECK_DEADLOCK FALSE
