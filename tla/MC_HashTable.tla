---------------------------- MODULE MC_HashTable ----------------------------
EXTENDS HashTable
MCValue == {0, 4, 8, -1}
MCClasses == {"int", "Bigint", "Varint", "Decimal", "Float", "Duration", "Date", "Uuid", "Blob", "Inet",
              "Smallint", "Tinyint", "Time", "Timestamp", "Timeuuid"}
=============================================================================
