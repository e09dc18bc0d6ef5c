SPECIFICATION Spec
CONSTANTS
  Chips <- AllChips
  Partners <- PartnersM
INVARIANTS AdvertisesSelected ReportedIsNegotiated
PROPERTIES WolKeepsLinkPossible
