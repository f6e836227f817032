---------------------------- MODULE MCForensic ----------------------------
(* Small trees and ways to start Forensic.                                 *)
EXTENDS Forensic

CONSTANTS root, d1, d2, f1, f2, f3

MCDirs  == {root, d1, d2}
MCFiles == {f1, f2, f3}

\* root has a file before and one after a directory, which has another in it.
MCContents ==
  [d \in MCDirs |-> CASE d = root -> <<f1, d1, f2>>
                      [] d = d1   -> <<d2, f3>>
                      [] d = d2   -> << >>]

\* -o on a terminal, with just the descriptors it needs and with two less, and
\* with a file or a directory that is gone; -r with redirected output; neither.
MCSettings ==
  { [r |-> TRUE, o |-> TRUE, lineBuffered |-> TRUE, descriptors |-> 7, broken |-> {}],
    [r |-> TRUE, o |-> TRUE, lineBuffered |-> TRUE, descriptors |-> 5, broken |-> {}],
    [r |-> TRUE, o |-> TRUE, lineBuffered |-> TRUE, descriptors |-> 9, broken |-> {f3, d2}],
    [r |-> TRUE, o |-> FALSE, lineBuffered |-> FALSE, descriptors |-> 9, broken |-> {}],
    [r |-> FALSE, o |-> TRUE, lineBuffered |-> FALSE, descriptors |-> 9, broken |-> {}] }

\* -r with redirected output.
MCRedirected ==
  { [r |-> TRUE, o |-> FALSE, lineBuffered |-> FALSE, descriptors |-> 9, broken |-> {}] }
=============================================================================
