SPECIFICATION Spec
CONSTANTS
  Fields <- MCFields
  Programs <- MCPrograms
  UserObjects <- MCUserObjects
  UserTypes <- MCUserTypes
  Entities <- MCEntities
  Runtime <- MCRuntime
  HeadersOf <- MCHeadersOf
  Distance <- MCDistance
  Height <- MCHeight
INVARIANTS
  NoEndlessActivation
  FileComplete
  EntitiesSettled
