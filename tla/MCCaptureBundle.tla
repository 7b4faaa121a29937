---------------------------- MODULE MCCaptureBundle ----------------------------
(* Two runs of capture.sh at a time, under the same name or not.           *)
EXTENDS CaptureBundle
MCRuns    == {"a", "b"}
MCNames   == {"sample", "second"}
MCNamings == {[r \in MCRuns |-> "sample"],
              [r \in MCRuns |-> IF r = "a" THEN "sample" ELSE "second"]}
================================================================================
