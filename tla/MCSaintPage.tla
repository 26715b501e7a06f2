----------------------------- MODULE MCSaintPage -----------------------------
(***************************************************************************)
(* Two overlapping history files of one source with a song that was heard  *)
(* again in between, notes that repeat and have no date, and screen time,  *)
(* where the same text on two days is two passages, with labels and watch  *)
(* times.                                                                  *)
(***************************************************************************)
EXTENDS SaintPage

Entry(text, when) == [text |-> text, when |-> when]
FileOf(source, records, watch_times, categories) ==
  [source |-> source, records |-> records, watch_times |-> watch_times, categories |-> categories]

Older == FileOf("spotify", <<Entry("a", 1), Entry("b", 3)>>, <<>>, {})
Newer == FileOf("spotify", <<Entry("c", 4), Entry("b", 3), Entry("d", 2), Entry("a", 5)>>, <<>>, {})
Notes == FileOf("notes", <<Entry("n", Undated), Entry("n", Undated)>>, <<>>, {})
Usage == FileOf("usage", <<Entry("m", 1), Entry("m", 2)>>, <<7, 7>>, {"label"})

MCFile == {Older, Newer, Notes, Usage}
MCSelection == {<<Older, Newer>>, <<Newer>>, <<Notes>>, <<Usage>>}
=============================================================================
