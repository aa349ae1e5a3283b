----------------------------- MODULE CameraCloud -----------------------------
(* The point cloud panel of a camera (components/pcd/pcd.vue).  It keeps the *)
(* cloud it has while it is closed, and fetches one whenever it is opened;   *)
(* answers come in any order, also to a closed panel.                        *)
EXTENDS PointCloudView

CONSTANT MaxCloudsAsked   \* bound on requests in flight

VARIABLES pcdExpanded, cloudsAsked

panelVars == <<pcdExpanded, cloudsAsked>>

PanelTypeOK == pcdExpanded \in BOOLEAN /\ cloudsAsked \in 0..MaxCloudsAsked

PanelInit == pcdExpanded = FALSE /\ cloudsAsked = 0

\* togglePCDExpand, and the view that comes and goes with it.
TogglePCDExpand ==
    /\ pcdExpanded' = ~pcdExpanded
    /\ IF pcdExpanded'
         THEN /\ cloudsAsked < MaxCloudsAsked
              /\ cloudsAsked' = cloudsAsked + 1
              /\ ShowView
         ELSE /\ UNCHANGED cloudsAsked
              /\ HideView

\* renderPCD is answered, or fails.
CloudReply ==
    /\ cloudsAsked > 0 /\ pointcloud < MaxClouds
    /\ cloudsAsked' = cloudsAsked - 1
    /\ NewCloud(pointcloud + 1)
    /\ UNCHANGED pcdExpanded

CloudError ==
    /\ cloudsAsked > 0
    /\ cloudsAsked' = cloudsAsked - 1
    /\ UNCHANGED <<pcdExpanded, viewVars>>

PanelNext ==
    \/ TogglePCDExpand \/ CloudReply \/ CloudError
    \/ ViewStep /\ UNCHANGED panelVars
=============================================================================
