-------------------------- MODULE MCWorkbookImport --------------------------
(* Two workbooks whose weekly and studio sheets clash with each other's; the second
   one has a master sheet no record can be inferred from, the third no studio sheet. *)
EXTENDS WorkbookImport

CONSTANTS rooms, courses, w1, w2, s1, s2

Book1 == [weekly |-> w1, studio |-> s1, good |-> {rooms, courses}, bad |-> {}]
Book2 == [weekly |-> w2, studio |-> s2, good |-> {}, bad |-> {courses}]
Book3 == [weekly |-> w1, studio |-> NoSheet, good |-> {}, bad |-> {}]
MCUploads == {[book |-> Book1, kind |-> "workbook"], [book |-> Book2, kind |-> "workbook"],
              [book |-> Book2, kind |-> "studio"],
              [book |-> Book3, kind |-> "workbook"]}
MCClashes == {<<w1, s2>>, <<w2, s1>>}
=============================================================================
