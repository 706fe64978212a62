\* Two tool calls, the import, every fault.
CONSTANTS
  Tasks = {t1, t2}
  Names <- MCNames
  Signs = {"UA", "PL"}
  CountrySign <- MCCountrySign
  Osm <- MCOsm
  Similarity <- MCSimilarity
  Cities <- MCCities
  Towns = {1, 2}
  LardiHits <- MCLardiHits
  Queries <- MCQueries
  Faults <- AllFaults
SPECIFICATION Spec
SYMMETRY Symmetry
INVARIANTS
  
  
  RaiseMeansHurt
PROPERTIES
  NamesAreKept
