SPECIFICATION SmokeSpec
CONSTANTS
    Levels = {4}
    Level4Cells = {"sqlfile_table_csv", "existingtable_csv"}
PROPERTIES
    VerifiedCsvIsThere
CHECK_DEADLOCK FALSE
