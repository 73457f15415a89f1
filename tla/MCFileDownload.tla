--------------------------- MODULE MCFileDownload ---------------------------
(* Folders in folders, an empty folder and an empty file, and files beside  *)
(* and after them: a walk that goes down twice and up twice.                *)
EXTENDS FileDownload

MCRoots == <<"outer", "empty", "beside">>
MCKids == [outer |-> <<"inner", "near">>, inner |-> <<"deep">>,
           empty |-> <<>>]
MCSize == [deep |-> 2, near |-> 0, beside |-> 2]
=============================================================================
