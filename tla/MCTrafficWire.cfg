SPECIFICATION Spec
CONSTANTS
    Credential = {"c1", "c2"}
    Name = {1, 2}
    Aggregate <- MCAggregate
    Dates <- MCDates
    MaxCount = 1
    MaxItems = 2
    MaxNamed = 1
INVARIANTS AcceptedIsSent ReceiptsCoverThePage
CHECK_DEADLOCK FALSE
