SPECIFICATION RtSpec
CONSTANTS RtRuns <- RtRunSet
 RtNode = {"n1","n2"}
 RtSocket = {"s1","s2","s3","s4"}
 RtDelivery = {"d1","d2"}
 RtNodeOf <- RtNodes
 RtUserOf <- RtUsers
 RtRoleOf <- RtRoles
 RtParty <- RtParties
 RtEvents <- RtEvs
 RtThreshold = 2
PROPERTY RtLocationFanout
CHECK_DEADLOCK FALSE
