SPECIFICATION StoreSpec
CONSTANTS
  Processes = {"p", "q"}
  Nothing = Nothing
  Torn = Torn
  MaxWrites = 3
PROPERTIES
  IsRegister
