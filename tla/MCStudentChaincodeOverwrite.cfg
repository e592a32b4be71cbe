CONSTANTS
  bureau = bureau
  manager1 = manager1
  manager2 = manager2
  ann = ann
  none = none
  Users = {bureau, manager1, manager2}
  IDs = {ann}
  Names = {"Ann"}
  Profiles = {"2024", "2025"}
  Schools <- MCSchools
  Marks = {"A"}
  Dates = {1, 2}
  Peers = {p1}
  Txns = {t1, t2}
  NoStudent = NoStudent
  Nobody = Nobody
  NoRequest = NoRequest
  NothingPut = NothingPut
  NoAffiliation = none
  Requests <- MCRequests
  Cert <- MCCert
  StateReadsMayFail = TRUE
SPECIFICATION Spec

PROPERTIES CreationNeverReplaces
SYMMETRY Symmetry
CHECK_DEADLOCK FALSE
