------------------------------ MODULE MCRobotTwin ------------------------------
EXTENDS RobotTwin

\* Two operations of robot_twin_panda01.yaml.
MCNeeds == [move_to_joints |-> {"arm"}, reset_scene |-> {"scene", "arm"}]
================================================================================
