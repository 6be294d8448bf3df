CONSTANTS
  given = given
  Request = {"r1", "r2"}
  Id = {given}
  NoId = NoId
  Template = {"/api/v1/items", "/api/v1/items/{item_id}"}
  Ask <- Kinds
  CheckAudience = FALSE
  CheckIssuer = TRUE
SPECIFICATION Spec
INVARIANTS TypeOK ApiErrorMeansNothingWritten CountedAsAnswered OwnIdOnly
