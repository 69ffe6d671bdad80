SPECIFICATION MqttFairSpec
CONSTANTS
    c1 = c1
    c2 = c2
    s1 = s1
    Containers = {c1, c2}
    Subs = {s1}
    SubParent <- MCSubParent
    AE = AE
    Found = {2000, 5106}
    MaxOverlaps = 1
    MaxFaults = 2
    MaxClients = 2
INVARIANTS OneSubscriber MqttCrashHasCause MqttRegistered
PROPERTIES MqttUploads
CHECK_DEADLOCK FALSE
