SPECIFICATION Spec

CONSTANTS
  Slugs <- SlugsUsed
  Files <- AllFiles
  Text <- TextUsed
  FormKinds = {"notification-channels", "monitors"}
  FormSlugs = {"a", "b"}
  MaxId = 2
  MaxOdd = 1

INVARIANTS
  AcceptedIsInForce
  OrderDecidesNothing
  RowsKept
  RoundTrip
