-------------------------------- MODULE MCItem --------------------------------
(* A replayed document of two pages: both are read, at once, and then the whole  *)
(* is validated.  The run it was copied from had read the second page first.     *)
EXTENDS Item

Body == <<"read", "read", "validate">>
BodyRecords == <<"page1", "page2", "document">>
BodyWaits == <<{}, {}, {1, 2}>>
PageTwo == {<<<<"read", 1>>, "page2">>, <<<<"validate", 1>>, "document">>}
================================================================================
