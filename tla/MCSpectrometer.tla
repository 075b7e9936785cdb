--------------------------- MODULE MCSpectrometer ---------------------------
(* The instance of Spectrometer that TLC checks. *)
EXTENDS Spectrometer

\* "cold" and "config" do what "start" does, and the other fake data differ
\* from "fake_sig" in the test that finds them.
SomeIbobCommands == {"sky", "hot", "zero_in", "start", "stop", "shutdown",
                     "init", "unknown"}
SomeVaneCommands == {"VANEIN", "VANEHOME", "fake_sig", "real"}
=============================================================================
