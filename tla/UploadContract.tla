--------------------------- MODULE UploadContract ---------------------------
(***************************************************************************)
(* What the edge agent promises the cloud about uploading missions to one  *)
(* vehicle, without the MAVLink handshake.  Uploads are numbered in the    *)
(* order in which the agent takes them up.  While one is under way the     *)
(* vehicle may hold anything it was ever sent; "uploaded" may be reported  *)
(* only of the mission the vehicle holds, and from then on it goes on      *)
(* holding it until the agent takes up the next upload.                    *)
(***************************************************************************)
EXTENDS Naturals

CONSTANT MaxUploads   \* bound: upload events the agent takes up

VARIABLES upload,     \* number of the last upload taken up, 0 before the first
          report,     \* report[u]: the last thing the cloud was told of upload u
          held        \* the upload whose whole mission the vehicle holds, or 0

vars == <<upload, report, held>>

Uploads == 1 .. MaxUploads

Init == /\ upload = 0
        /\ report = [u \in Uploads |-> "none"]
        /\ held = 0

UnderWay == upload > 0 /\ report[upload] = "uploading"

\* A mission without waypoints is refused as soon as it is taken up.
TakeUp == /\ ~UnderWay
          /\ upload < MaxUploads
          /\ upload' = upload + 1
          /\ \E r \in {"uploading", "failed", "abandoned"} :
               report' = [report EXCEPT ![upload + 1] = r]
          /\ UNCHANGED held

VehicleChanges == /\ upload > 0
                  /\ report[upload] # "uploaded"
                  /\ held' \in 0 .. upload
                  /\ UNCHANGED <<upload, report>>

Conclude == /\ UnderWay
            /\ \/ /\ held = upload
                  /\ report' = [report EXCEPT ![upload] = "uploaded"]
               \/ report' = [report EXCEPT ![upload] = "failed"]
               \/ report' = [report EXCEPT ![upload] = "abandoned"]
            /\ UNCHANGED <<upload, held>>

Next == TakeUp \/ VehicleChanges \/ Conclude

Spec == Init /\ [][Next]_vars
=============================================================================
