--------------------------- MODULE MCRobotSession ---------------------------
(* RobotSession on small instances.                                        *)
EXTENDS RobotSession

CONSTANTS task, state    \* tasks.events and robot.state

(* reconnect_max_attempts = -1, its default                                *)
NoLimit == -1
=============================================================================
