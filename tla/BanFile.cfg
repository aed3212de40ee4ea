SPECIFICATION BanSpec
CONSTANTS
 Culprit={"ann","bob"}
 Moderator={"m1","m2"}
 Terms={1,2}
 Shift = 1
 LastHour=3
CHECK_DEADLOCK FALSE
INVARIANT BansLast
