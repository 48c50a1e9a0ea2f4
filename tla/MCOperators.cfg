\* Two players who are operators at first; two changes of the list.
SPECIFICATION OpSpec
CONSTANTS
    ann = ann  bob = bob  nobody = nobody
    Names = {ann, bob}
    Nobody = nobody
    FirstFiles <- MCFirstFiles
    Asked = {0, 3, 5, 6}
    MaxCommands = 2
INVARIANTS OpTypeOK NamesAreChecked UnmarkedIsSaved
PROPERTIES TopNeverRises
CHECK_DEADLOCK FALSE
