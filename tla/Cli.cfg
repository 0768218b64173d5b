SPECIFICATION CliSpec
CONSTANTS
  Numbers <- MCNumbers
  Abbreviations <- MCAbbreviations
  CommandLines <- MCCommandLines
  Sizes <- MCSizes
  Users <- MCUsers
  INT_MAX = 8
  Kilo = 4
  MaxErrors = 2
  MaxParses = 2
  MAX_COMMAND_ARGS = 3
  Threads = {main, other}
  Main = main
  NoThread = NoThread
CHECK_DEADLOCK FALSE
INVARIANTS ArgumentsExact     RunsOnlyAsked
PROPERTY LogLineEnds
