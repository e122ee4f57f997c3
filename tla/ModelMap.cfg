SPECIFICATION Spec
CONSTANTS
  Lists <- MCLists
  Requests <- MCRequests
INVARIANTS
  SentIsServed
  BodyAsCame
  RoutedAsNamed
  AdvertisedRoutedByStem
