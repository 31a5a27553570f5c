------------------------------ MODULE MCExport ------------------------------
(* The model values of MCTracking for the runs of ChangeExport.            *)
EXTENDS ChangeExport, MCTracking
=============================================================================
